---- MODULE Spec2Model ----
(***************************************************************************)
(* Visual regression engine of ai-testing-agent:                           *)
(*   src/src/automation/visual_testing.py  (VisualTester)                  *)
(*   src/src/utils/cv_utils.py             (ComputerVisionUtils)           *)
(*   src/src/utils/config.py               (TestingConfig)                 *)
(*   src/main.py                           (visual_test command)           *)
(*   src/src/agents/test_agent.py          (TestAgent.continuous_testing)  *)
(*                                                                         *)
(* Strings that the code transforms (test names, file names) are sequences *)
(* of one-character strings; ".png" is one token.  Images are small pixel  *)
(* arrays of BGR triples.  A similarity is an exact rational [n, d].       *)
(***************************************************************************)
EXTENDS Integers, Sequences, FiniteSets, TLC

VARIABLES
    fs,                 \* the image store: path -> image, for the files that exist
    browser,            \* VisualTester.browser
    playwright,         \* VisualTester.playwright
    page,               \* local `page` of the unit being run
    pc,                 \* position of the running call
    mode,               \* which batch call is running: "none", "visual", "baseline"
    queue,              \* the tests (or urls) of the batch not yet started
    idx,                \* enumerate() index of create_baseline_suite
    cur,                \* the test (or url) being run
    goto_timeout,       \* timeout of the page.goto being awaited (0: none)
    current_screenshot, \* local of _run_single_visual_test
    comparison_result,  \* local of _run_single_visual_test
    result,             \* the value _run_single_visual_test is about to return
    results,            \* local `results` of run_visual_tests
    baseline_results,   \* `results` of create_baseline_suite
    created_from,       \* history: baseline path -> the capture that created it
    browser_name,       \* loop variable of run_cross_browser_visual_test
    local_browser,      \* local `browser` of run_cross_browser_visual_test
    local_playwright,   \* local `playwright` of run_cross_browser_visual_test
    cross_results,      \* `results` of run_cross_browser_visual_test
    comparisons,        \* `comparisons` of _compare_cross_browser_screenshots
    pair,               \* the loop indices <<i, j>> of the pair loop
    visited,            \* history: the pairs visited and what compare_screenshots returned
    cv_pc,              \* position of a direct call of compare_screenshots
    cv_out,             \* the dictionary that call returned
    runs,               \* units started so far (bounded by MaxRuns)
    faults,             \* environment failures so far (bounded by MaxFaults)
    ssim_available,     \* whether `from skimage.metrics import ...` succeeds
    config_threshold,   \* config.testing.visual_regression["threshold"]
    ui_pc,              \* position of a call of detect_ui_elements
    image_file,         \* what the file at image_path is: an image, or not readable
    contours,           \* the bounding rectangles cv2.findContours yields on the image
    elements,           \* the list detect_ui_elements returned
    path_pc,            \* position of the derivation of two tests' paths
    names,              \* the names of two tests
    artifact_paths,     \* the paths derived for each of the two names
    agent_pc,           \* position of the loop of continuous_testing
    baseline_analysis,  \* local of continuous_testing
    current_analysis,   \* local of continuous_testing
    changes,            \* local of continuous_testing
    test_suite,         \* local of continuous_testing
    exec_results        \* local `results` of continuous_testing

vars == <<fs, browser, playwright, page, pc, mode, queue, idx, cur, goto_timeout,
          current_screenshot, comparison_result, result, results,
          baseline_results, created_from, browser_name, local_browser,
          local_playwright, cross_results, comparisons, pair, visited,
          cv_pc, cv_out, runs, faults, ssim_available, config_threshold,
          ui_pc, image_file, contours, elements, path_pc, names,
          artifact_paths, agent_pc, baseline_analysis, current_analysis,
          changes, test_suite, exec_results>>

------------------------------------------------------------------------------
(* Bounds of the model *)

MaxRuns == 3

MaxTests == 2

MaxFaults == 1

MaxNameLen == 2

------------------------------------------------------------------------------
(* Rationals *)

RECURSIVE Gcd(_, _)
Gcd(a, b) == IF b = 0 THEN a ELSE Gcd(b, a % b)

Abs(x) == IF x < 0 THEN -x ELSE x

Rat(n, d) ==
    LET g == Gcd(Abs(n), d)
    IN  [n |-> n \div g, d |-> d \div g]

RatGeq(x, y) == x.n * y.d >= y.n * x.d

RatLt(x, y) == x.n * y.d < y.n * x.d

One == Rat(1, 1)

Zero == Rat(0, 1)

------------------------------------------------------------------------------
(* Strings *)

None == "None"

PNG == ".png"

UpperToLower == [c \in {"A", "H", "D", "V", "R", "T"} |->
                    CASE c = "A" -> "a"
                      [] c = "H" -> "h"
                      [] c = "D" -> "d"
                      [] c = "V" -> "v"
                      [] c = "R" -> "r"
                      [] c = "T" -> "t"]

\* str.lower() on one character
LowerChar(c) == IF c \in DOMAIN UpperToLower THEN UpperToLower[c] ELSE c

\* str.replace(' ', '_') on one character
ReplaceSpace(c) == IF c = " " THEN "_" ELSE c

\* test_name.replace(' ', '_').lower()
NormalizeName(s) == [i \in 1..Len(s) |-> LowerChar(ReplaceSpace(s[i]))]

\* f"{...}.png"
PngName(s) == s \o <<PNG>>

\* the suffix "_diff.png"
DiffSuffix == <<"_", "d", "i", "f", "f", PNG>>

\* pathlib: Path(p).stem of a file name
Stem(name) ==
    IF Len(name) > 0 /\ name[Len(name)] = PNG
    THEN SubSeq(name, 1, Len(name) - 1)
    ELSE name

MkPath(dir, name) == [dir |-> dir, name |-> name]

\* the empty string used where the code has no path
NoPath == MkPath("", <<>>)

BaselineDir == "baselines"

CurrentDir == "current"

DiffDir == "diffs"

------------------------------------------------------------------------------
(* Images: [w, h, px], px the row-major sequence of <<b, g, r>> pixels *)

White == <<255, 255, 255>>

Black == <<0, 0, 0>>

Yellow == <<0, 255, 255>>

Red == <<0, 0, 255>>

MkImage(w, h, px) == [w |-> w, h |-> h, px |-> px]

ImgA == MkImage(2, 1, <<White, White>>)

ImgB == MkImage(2, 1, <<White, Black>>)

ImgC == MkImage(2, 1, <<White, Yellow>>)

\* a one-pixel image, a wider image and a taller image
ImgD == MkImage(1, 1, <<White>>)

ImgE == MkImage(4, 1, <<White, White, Black, Black>>)

ImgF == MkImage(1, 2, <<White, Black>>)

\* the images a screenshot file can hold
Images == {ImgA, ImgB, ImgC, ImgD, ImgE, ImgF}

\* what page.screenshot() writes: the page as rendered, which may change
\* between two captures
Captures == {ImgA, ImgB}

Shape(img) == <<img.h, img.w, 3>>

\* cv2.absdiff on uint8 arrays
AbsDiff(img1, img2) ==
    MkImage(img1.w, img1.h,
            [i \in 1..Len(img1.px) |->
                [c \in 1..3 |-> Abs(img1.px[i][c] - img2.px[i][c])]])

\* cv2.cvtColor(..., COLOR_BGR2GRAY) on one uint8 pixel (15-bit fixed point)
BY15 == 3735

GY15 == 19235

RY15 == 9798

GrayShift == 32768

GrayPixel(p) ==
    (p[1] * BY15 + p[2] * GY15 + p[3] * RY15 + (GrayShift \div 2)) \div GrayShift

\* a single-channel array: the sequence of gray values
ToGray(img) == [i \in 1..Len(img.px) |-> GrayPixel(img.px[i])]

\* the intensity cutoff and the mask value of cv2.threshold(gray, 30, 255, ...)
DiffCutoff == 30

MaskOn == 255

\* cv2.threshold(gray, 30, 255, cv2.THRESH_BINARY)
ThresholdBinary(gray) ==
    [i \in 1..Len(gray) |-> IF gray[i] > DiffCutoff THEN MaskOn ELSE 0]

\* ComputerVisionUtils._create_diff_mask
CreateDiffMask(img1, img2) == ThresholdBinary(ToGray(AbsDiff(img1, img2)))

RECURSIVE SumSeq(_)
SumSeq(s) == IF s = <<>> THEN 0 ELSE Head(s) + SumSeq(Tail(s))

\* np.count_nonzero over every channel value of a 3-channel array
CountNonzero(img) ==
    Cardinality({<<i, c>> \in (1..Len(img.px)) \X (1..3) : img.px[i][c] # 0})

\* img[mask > 0] = [0, 0, 255]
PaintMask(img, mask) ==
    MkImage(img.w, img.h,
            [i \in 1..Len(img.px) |-> IF mask[i] > 0 THEN Red ELSE img.px[i]])

\* INTER_RESIZE_COEF_SCALE of cv2.resize: the weights are 11-bit fixed point
CoefScale == 2048

\* a / b rounded to the nearest integer (a >= 0, b > 0); the quotients that
\* occur for the sizes of this model are exact
RoundDiv(a, b) == (2 * a + b) \div (2 * b)

\* the two source samples of destination index d (0-based) when sn samples
\* are resized to dn, and their weights: the source coordinate is
\* fx = (d + 0.5) * sn / dn - 0.5, clamped to the first and the last sample
LinearTap(d, sn, dn) ==
    LET num == (2 * d + 1) * sn - dn
        den == 2 * dn
    IN  IF num < 0 THEN [s |-> 0, a0 |-> CoefScale, a1 |-> 0]
        ELSE IF num \div den >= sn - 1
        THEN [s |-> sn - 1, a0 |-> CoefScale, a1 |-> 0]
        ELSE [s |-> num \div den,
              a0 |-> RoundDiv((den - (num % den)) * CoefScale, den),
              a1 |-> RoundDiv((num % den) * CoefScale, den)]

\* channel ch of the pixel in row r, column c (0-based)
Px(img, r, c, ch) == img.px[r * img.w + c + 1][ch]

\* the horizontal pass for row r: the weighted sum of the two samples
HResizeLinear(img, r, tap, ch) ==
    Px(img, r, tap.s, ch) * tap.a0
        + (IF tap.a1 = 0 THEN 0 ELSE Px(img, r, tap.s + 1, ch) * tap.a1)

\* the vertical pass on uint8 data
VResizeLinear(img, tx, ty, ch) ==
    LET S0 == HResizeLinear(img, ty.s, tx, ch)
        S1 == IF ty.a1 = 0 THEN 0 ELSE HResizeLinear(img, ty.s + 1, tx, ch)
    IN  (((ty.a0 * (S0 \div 16)) \div 65536)
            + ((ty.a1 * (S1 \div 16)) \div 65536) + 2) \div 4

\* the 2x2 box average INTER_LINEAR is replaced by when both scales are 2
AreaFast2(img, x, y, ch) ==
    (Px(img, 2 * y, 2 * x, ch) + Px(img, 2 * y, 2 * x + 1, ch)
        + Px(img, 2 * y + 1, 2 * x, ch) + Px(img, 2 * y + 1, 2 * x + 1, ch)
        + 2) \div 4

\* cv2.resize with the default INTER_LINEAR interpolation, to width w and
\* height h
ResizeLinear(img, w, h) ==
    MkImage(w, h,
        [k \in 1..(w * h) |->
            LET x == (k - 1) % w
                y == (k - 1) \div w
            IN  [ch \in 1..3 |->
                    IF img.w = 2 * w /\ img.h = 2 * h
                    THEN AreaFast2(img, x, y, ch)
                    ELSE VResizeLinear(img, LinearTap(x, img.w, w),
                                       LinearTap(y, img.h, h), ch)]])

\* mutant of Resize: width and height are given in the order of shape
ResizeSwapped(img, w, h) == ResizeLinear(img, h, w)

\* cv2.resize(img, (w, h)) as the callers write it, (shape[1], shape[0])
Resize(img, w, h) == ResizeLinear(img, w, h)

\* if img1.shape != img2.shape: img2 = cv2.resize(img2, ...)
SameShapeAs(img1, img2) ==
    IF Shape(img1) # Shape(img2) THEN Resize(img2, img1.w, img1.h) ELSE img2

\* row r (1-based) of an image, as a sequence of pixels
Row(img, r) == SubSeq(img.px, (r - 1) * img.w + 1, r * img.w)

RECURSIVE ConcatRows(_, _, _, _)
ConcatRows(a, b, c, r) ==
    IF r > a.h THEN <<>>
    ELSE Row(a, r) \o Row(b, r) \o Row(c, r) \o ConcatRows(a, b, c, r + 1)

\* mutant of SideBySideCutoff: the composite uses a lower cutoff than the mask
SideBySideCutoffLow == DiffCutoff - 2

\* the cutoff of _create_side_by_side_comparison
SideBySideCutoff == 30

\* _, mask = cv2.threshold(gray_diff, 30, 255, cv2.THRESH_BINARY)
SideBySideMask(gray) ==
    [i \in 1..Len(gray) |-> IF gray[i] > SideBySideCutoff THEN MaskOn ELSE 0]

\* VisualTester._create_side_by_side_comparison; the labels are drawn at
\* y = 30, below the last row of the images of this model
CreateSideBySideComparison(baseline, current) ==
    LET mask == SideBySideMask(ToGray(AbsDiff(baseline, current)))
        diff_colored == PaintMask(current, mask)
    IN  MkImage(baseline.w * 3, baseline.h,
                ConcatRows(baseline, current, diff_colored, 1))

\* the values skimage's structural_similarity is taken to return for two
\* gray arrays that differ; for equal arrays it returns exactly 1.0
SsimValues == {Rat(-1, 10), Rat(95, 100)}

\* mutant of SsimOutcomes: equal arrays are scored like any others
SsimOutcomesNeverExact(gray1, gray2) == SsimValues

SsimOutcomes(gray1, gray2) == IF gray1 = gray2 THEN {One} ELSE SsimValues

\* the except ImportError branch of _calculate_similarity
FallbackSimilarity(img1, img2) ==
    LET non_zero_count == CountNonzero(AbsDiff(img1, img2))
        total_pixels == img1.h * img1.w * 3
    IN  Rat(total_pixels - non_zero_count, total_pixels)

\* ComputerVisionUtils._calculate_similarity: the set of values it can return
CalculateSimilarity(img1, img2, ssimOk) ==
    IF ssimOk THEN SsimOutcomes(ToGray(img1), ToGray(img2))
    ELSE {FallbackSimilarity(img1, img2)}

\* ComputerVisionUtils.visual_threshold
VisualThreshold == Rat(95, 100)

\* "passed": similarity >= self.visual_threshold
Passed(similarity) == RatGeq(similarity, VisualThreshold)

\* mutant of DifferencesFound: true only when most of the mask is set
DifferencesFoundMajority(diff_mask) ==
    SumSeq(diff_mask) * 2 > MaskOn * Len(diff_mask)

\* "differences_found": np.sum(diff_mask) > 0
DifferencesFound(diff_mask) == SumSeq(diff_mask) > 0

------------------------------------------------------------------------------
(* The image store and dictionaries *)

\* cv2.imread of a file that cannot be decoded returns None
NoImage == MkImage(0, 0, <<>>)

\* a local that is not bound yet
NoResult == [unset |-> TRUE]

NoTest == [name |-> <<>>, url |-> "", type |-> ""]

Exists(f, p) == p \in DOMAIN f

\* writing a file: page.screenshot(path=...), shutil.copy, cv2.imwrite
Put(f, p, img) == [q \in DOMAIN f \cup {p} |-> IF q = p THEN img ELSE f[q]]

\* cv2.imread(path); `ok` is whether the file can be read and decoded
Imread(f, p, ok) == IF ok /\ Exists(f, p) THEN f[p] ELSE NoImage

\* dict.get(key, default)
Get(r, k, default) == IF k \in DOMAIN r THEN r[k] ELSE default

------------------------------------------------------------------------------
(* ComputerVisionUtils *)

\* _create_diff_image: original_path.parent / f"{original_path.stem}_diff.png"
DiffImagePath(original_path) ==
    MkPath(original_path.dir, Stem(original_path.name) \o DiffSuffix)

\* compare_screenshots(image1_path, image2_path) on store f, where ok1, ok2
\* say whether each imread succeeds and s is the value _calculate_similarity
\* returns; gives the dictionary returned and the store afterwards
CompareScreenshots(f, image1_path, image2_path, ok1, ok2, s) ==
    LET img1 == Imread(f, image1_path, ok1)
        img2raw == Imread(f, image2_path, ok2)
    IN  IF img1 = NoImage \/ img2raw = NoImage
        THEN [fs |-> f, comparison |-> [error |-> "Could not load images"]]
        ELSE
          LET img2 == SameShapeAs(img1, img2raw)
              diff_mask == CreateDiffMask(img1, img2)
              diff_image_path == DiffImagePath(image1_path)
          IN  [fs |-> Put(f, diff_image_path, PaintMask(img2, diff_mask)),
               comparison |->
                  [similarity |-> s,
                   passed |-> Passed(s),
                   diff_image |-> diff_image_path,
                   differences_found |-> DifferencesFound(diff_mask)]]

\* the values s that compare_screenshots can measure for the two files
SimilarityChoices(f, image1_path, image2_path, ok1, ok2, ssimOk) ==
    LET img1 == Imread(f, image1_path, ok1)
        img2raw == Imread(f, image2_path, ok2)
    IN  IF img1 = NoImage \/ img2raw = NoImage THEN {Zero}
        ELSE CalculateSimilarity(img1, SameShapeAs(img1, img2raw), ssimOk)

------------------------------------------------------------------------------
(* VisualTester: paths and results *)

\* _take_screenshot: self.current_dir / f"{test_name.replace(' ', '_').lower()}.png"
ScreenshotPath(test_name) == MkPath(CurrentDir, PngName(NormalizeName(test_name)))

\* _compare_with_baseline: self.baseline_dir / baseline_name
BaselinePath(test_name) == MkPath(BaselineDir, PngName(NormalizeName(test_name)))

\* _create_diff_visualization: self.diff_dir / diff_name
DiffVisualizationPath(test_name) ==
    MkPath(DiffDir, NormalizeName(test_name) \o DiffSuffix)

\* mutant of FirstRunResult: the marker of a baseline-creation run is left out
FirstRunResultNoMarker(baseline_path) ==
    [passed |-> TRUE,
     similarity |-> One,
     baseline_path |-> baseline_path,
     message |-> "Baseline screenshot created"]

\* the dictionary of the first-run branch of _compare_with_baseline
FirstRunResult(baseline_path) ==
    [passed |-> TRUE,
     similarity |-> One,
     baseline_path |-> baseline_path,
     first_run |-> TRUE,
     message |-> "Baseline screenshot created"]

\* the dictionary returned when compare_screenshots reported an error
ComparisonErrorResult(comparison, baseline_path) ==
    [passed |-> FALSE,
     error |-> comparison.error,
     baseline_path |-> baseline_path]

\* the dictionary returned after a comparison
ComparedResult(comparison, baseline_path, diff_path) ==
    [passed |-> Get(comparison, "passed", FALSE),
     similarity |-> Get(comparison, "similarity", Zero),
     baseline_path |-> baseline_path,
     diff_path |-> diff_path,
     differences_found |-> Get(comparison, "differences_found", FALSE)]

\* mutant of CreateDiffVisualization: the path is returned although the images
\* could not be read again and nothing was written
CreateDiffVisualizationKeepsPath(f, baseline_path, current_path, test_name, ok) ==
    LET diff_path == DiffVisualizationPath(test_name)
        baseline_img == Imread(f, baseline_path, ok)
        current_raw == Imread(f, current_path, ok)
    IN  IF baseline_img = NoImage \/ current_raw = NoImage
        THEN [fs |-> f, diff_path |-> diff_path]
        ELSE
          LET current_img == SameShapeAs(baseline_img, current_raw)
          IN  [fs |-> Put(f, diff_path,
                          CreateSideBySideComparison(baseline_img, current_img)),
               diff_path |-> diff_path]

\* _create_diff_visualization(baseline_path, current_path, test_name) on store
\* f; ok says whether both images can be read again
CreateDiffVisualization(f, baseline_path, current_path, test_name, ok) ==
    LET diff_path == DiffVisualizationPath(test_name)
        baseline_img == Imread(f, baseline_path, ok)
        current_raw == Imread(f, current_path, ok)
    IN  IF baseline_img = NoImage \/ current_raw = NoImage
        THEN [fs |-> f, diff_path |-> NoPath]
        ELSE
          LET current_img == SameShapeAs(baseline_img, current_raw)
          IN  [fs |-> Put(f, diff_path,
                          CreateSideBySideComparison(baseline_img, current_img)),
               diff_path |-> diff_path]

\* mutant of BaselineMissing: the existence test is skipped
BaselineMissingAlways(f, baseline_path) == TRUE

\* if not baseline_path.exists():
BaselineMissing(f, baseline_path) == ~Exists(f, baseline_path)

\* _compare_with_baseline(test_name, current_path) on store f; gives the
\* dictionary returned and the store afterwards
CompareWithBaselineOn(f, test_name, current_path, ok1, ok2, s, okVis) ==
    LET baseline_path == BaselinePath(test_name)
    IN  IF BaselineMissing(f, baseline_path)
        THEN [fs |-> Put(f, baseline_path, f[current_path]),
              ret |-> FirstRunResult(baseline_path)]
        ELSE
          LET c == CompareScreenshots(f, baseline_path, current_path, ok1, ok2, s)
          IN  IF "error" \in DOMAIN c.comparison
              THEN [fs |-> c.fs,
                    ret |-> ComparisonErrorResult(c.comparison, baseline_path)]
              ELSE IF Get(c.comparison, "differences_found", FALSE)
              THEN LET v == CreateDiffVisualization(c.fs, baseline_path,
                                                    current_path, test_name, okVis)
                   IN  [fs |-> v.fs,
                        ret |-> ComparedResult(c.comparison, baseline_path,
                                               v.diff_path)]
              ELSE [fs |-> c.fs,
                    ret |-> ComparedResult(c.comparison, baseline_path, NoPath)]

\* the dictionary _run_single_visual_test returns after a comparison
TestResult(test, shot, cr) ==
    [name |-> test.name,
     url |-> test.url,
     status |-> IF Get(cr, "passed", FALSE) THEN "passed" ELSE "failed",
     similarity |-> Get(cr, "similarity", Zero),
     current_screenshot |-> shot,
     baseline_screenshot |-> Get(cr, "baseline_path", NoPath),
     diff_screenshot |-> Get(cr, "diff_path", NoPath),
     differences_found |-> Get(cr, "differences_found", FALSE)]

\* the dictionary of the except branch of _run_single_visual_test
TestErrorResult(test, msg) ==
    [name |-> test.name, status |-> "error", error |-> msg]

\* the dictionary run_visual_tests appends in its own except branch
BatchErrorResult(msg) ==
    [name |-> <<"Visual Testing Error">>, status |-> "error", error |-> msg]

------------------------------------------------------------------------------
(* Inputs *)

URLs == {"u1", "u2"}

\* the test_config of main.py's visual_test command
CliTestName ==
    <<"V", "i", "s", "u", "a", "l", " ", "R", "e", "g", "r", "e", "s", "s",
      "i", "o", "n", " ", "T", "e", "s", "t">>

CliTest(url) == [name |-> CliTestName, url |-> url, type |-> "full_page"]

\* a test whose normalised name is the CLI test's followed by "_diff"
DiffTestName == CliTestName \o <<" ", "D", "i", "f", "f">>

DiffTest == [name |-> DiffTestName, url |-> "u2", type |-> "viewport"]

\* the tests a caller passes to run_visual_tests
InputTests == {CliTest("u1"), DiffTest}

\* the non-empty lists over S of at most n elements
ListsUpTo(S, n) == UNION {[1..k -> S] : k \in 1..n}

DigitChar(n) ==
    CASE n = 0 -> "0" [] n = 1 -> "1" [] n = 2 -> "2" [] n = 3 -> "3"
      [] n = 4 -> "4" [] n = 5 -> "5" [] n = 6 -> "6" [] n = 7 -> "7"
      [] n = 8 -> "8" [] n = 9 -> "9"

\* create_baseline_suite: test_name = f"baseline_{i+1}", i the 0-based index
BaselineSuiteName(i) ==
    <<"b", "a", "s", "e", "l", "i", "n", "e", "_">> \o <<DigitChar(i + 1)>>

\* page.goto(url, ..., timeout=30000)
FirstTimeout == 30000

\* mutant of RetryTimeout: the retry waits no longer than the first attempt
RetryTimeoutShort == FirstTimeout

\* the retry: page.goto(url, ..., timeout=60000)
RetryTimeout == 60000

\* TestingConfig.visual_regression["threshold"]: the default, and the values
\* a settings file can give it
DefaultConfigThreshold == Rat(95, 100)

ConfigThresholds == {Rat(90, 100), Rat(95, 100), Rat(99, 100)}

------------------------------------------------------------------------------
(* State machine *)

\* the variables of the calls made outside VisualTester
detector == <<ui_pc, image_file, contours, elements>>

derivation == <<path_pc, names, artifact_paths>>

agent == <<agent_pc, baseline_analysis, current_analysis, changes, test_suite,
           exec_results>>

standalone == <<detector, derivation, agent>>

\* no call of detect_ui_elements is under way
DetectorInit ==
    /\ ui_pc = "off"
    /\ image_file = "missing"
    /\ contours = [gray |-> <<>>, edges |-> <<>>]
    /\ elements = <<>>

\* no path is being derived
DerivationInit ==
    /\ path_pc = "off"
    /\ names = <<>>
    /\ artifact_paths = <<>>

\* continuous_testing is not running
AgentInit ==
    /\ agent_pc = "off"
    /\ baseline_analysis = NoResult
    /\ current_analysis = NoResult
    /\ changes = <<>>
    /\ test_suite = NoResult
    /\ exec_results = NoResult

\* VisualTester.__init__ and no call under way
VisualTesterInit ==
    /\ fs = <<>>
    /\ browser = None
    /\ playwright = None
    /\ page = None
    /\ pc = "idle"
    /\ mode = "none"
    /\ queue = <<>>
    /\ idx = 0
    /\ cur = NoTest
    /\ goto_timeout = 0
    /\ current_screenshot = NoPath
    /\ comparison_result = NoResult
    /\ result = NoResult
    /\ results = <<>>
    /\ baseline_results = NoResult
    /\ created_from = <<>>
    /\ browser_name = None
    /\ local_browser = None
    /\ local_playwright = None
    /\ cross_results = <<>>
    /\ comparisons = <<>>
    /\ pair = <<0, 0>>
    /\ visited = <<>>
    /\ cv_pc = "off"
    /\ cv_out = NoResult
    /\ runs = 0
    /\ faults = 0
    /\ ssim_available = TRUE
    /\ config_threshold = DefaultConfigThreshold

Init ==
    /\ VisualTesterInit
    /\ DetectorInit
    /\ DerivationInit
    /\ AgentInit

\* the variables of run_cross_browser_visual_test
cross == <<browser_name, local_browser, local_playwright, cross_results,
           comparisons, pair, visited>>

env == <<ssim_available, config_threshold, cv_pc, cv_out, cross, standalone>>

\* an operation of the environment (browser, file read) succeeds, or fails
\* while the model's budget of failures lasts
Outcome(ok) ==
    /\ ok \/ faults < MaxFaults
    /\ faults' = IF ok THEN faults ELSE faults + 1

\* start_browser(): async_playwright().start() and chromium.launch(); either
\* can raise, and self.playwright is assigned before the launch
StartBrowserOn(okPlaywright, okLaunch) ==
    IF ~okPlaywright
    THEN [playwright |-> None, browser |-> None, raised |-> TRUE]
    ELSE IF ~okLaunch
    THEN [playwright |-> "started", browser |-> None, raised |-> TRUE]
    ELSE [playwright |-> "started", browser |-> "open", raised |-> FALSE]

\* mutant of StopBrowserOn: playwright is left running
StopBrowserOnBrowserOnly(b, p, okBrowser, okPlaywright) ==
    IF b # None /\ ~okBrowser
    THEN [browser |-> b, playwright |-> p, raised |-> TRUE]
    ELSE [browser |-> None, playwright |-> p, raised |-> FALSE]

\* stop_browser() on the handles b and p: each handle that is set is closed
\* and then cleared; a close that raises leaves it and what follows untouched
StopBrowserOn(b, p, okBrowser, okPlaywright) ==
    IF b # None /\ ~okBrowser
    THEN [browser |-> b, playwright |-> p, raised |-> TRUE]
    ELSE IF p # None /\ ~okPlaywright
    THEN [browser |-> None, playwright |-> p, raised |-> TRUE]
    ELSE [browser |-> None, playwright |-> None, raised |-> FALSE]

\* run_visual_tests(visual_tests): results = [] and start_browser()
StartVisualTests(tests, okPlaywright, ok) ==
    /\ pc = "idle"
    /\ goto_timeout' = 0
    /\ ~okPlaywright => ok
    /\ Outcome(okPlaywright /\ ok)
    /\ runs + Len(tests) <= MaxRuns
    /\ runs' = runs + Len(tests)
    /\ mode' = "visual"
    /\ queue' = tests
    /\ playwright' = StartBrowserOn(okPlaywright, ok).playwright
    /\ browser' = StartBrowserOn(okPlaywright, ok).browser
    /\ cur' = NoTest
    /\ current_screenshot' = NoPath
    /\ comparison_result' = NoResult
    /\ result' = NoResult
    /\ IF ~StartBrowserOn(okPlaywright, ok).raised
       THEN /\ results' = <<>>
            /\ pc' = "loop"
       ELSE /\ results' = <<BatchErrorResult("launch failed")>>
            /\ pc' = "stopping"
    /\ UNCHANGED <<created_from, fs, page, idx, baseline_results, env>>

\* the for loop of run_visual_tests: the next test enters _run_single_visual_test
NextTest ==
    /\ pc = "loop"
    /\ goto_timeout' = 0
    /\ mode = "visual"
    /\ queue # <<>>
    /\ cur' = Head(queue)
    /\ queue' = Tail(queue)
    /\ current_screenshot' = NoPath
    /\ comparison_result' = NoResult
    /\ result' = NoResult
    /\ pc' = "new_page"
    /\ UNCHANGED <<created_from, fs, browser, playwright, page, mode, idx, results,
                   baseline_results, runs, faults, env>>

\* page = await self.browser.new_page() and the viewport and timeout settings
NewPage(ok) ==
    /\ pc = "new_page"
    /\ goto_timeout' = IF ok THEN FirstTimeout ELSE 0
    /\ Outcome(ok)
    /\ mode = "visual"
    /\ IF ok
       THEN /\ page' = "open"
            /\ pc' = "goto1"
            /\ UNCHANGED result
       ELSE /\ page' = None
            /\ result' = TestErrorResult(cur, "new_page failed")
            /\ pc' = "finally"
    /\ UNCHANGED <<created_from, fs, browser, playwright, mode, queue, idx, cur, current_screenshot, comparison_result, results,
                   baseline_results, runs, env>>

\* the first navigation: goto and wait_for_load_state with timeout=30000
Goto1(ok) ==
    /\ pc = "goto1"
    /\ goto_timeout' = IF ok THEN 0 ELSE RetryTimeout
    /\ mode = "visual"
    /\ pc' = IF ok THEN "screenshot" ELSE "goto2"
    /\ UNCHANGED <<created_from, fs, browser, playwright, page, mode, queue, idx, cur,
                   current_screenshot, comparison_result, result, results,
                   baseline_results, runs, faults, env>>

\* the retry in the except branch: goto and wait_for_load_state with timeout=60000
Goto2(ok) ==
    /\ pc = "goto2"
    /\ goto_timeout' = 0
    /\ Outcome(ok)
    /\ mode = "visual"
    /\ IF ok
       THEN /\ pc' = "screenshot"
            /\ UNCHANGED result
       ELSE /\ result' = TestErrorResult(cur, "navigation timeout")
            /\ pc' = "finally"
    /\ UNCHANGED <<created_from, fs, browser, playwright, page, mode, queue, idx, cur,
                   current_screenshot, comparison_result, results,
                   baseline_results, runs, env>>

\* current_screenshot = await self._take_screenshot(page, test_name, test_type)
TakeScreenshot(ok, img) ==
    /\ pc = "screenshot"
    /\ Outcome(ok)
    /\ mode = "visual"
    /\ IF ok
       THEN /\ fs' = Put(fs, ScreenshotPath(cur.name), img)
            /\ current_screenshot' = ScreenshotPath(cur.name)
            /\ pc' = "compare"
            /\ UNCHANGED result
       ELSE /\ result' = TestErrorResult(cur, "screenshot failed")
            /\ pc' = "finally"
            /\ UNCHANGED <<fs, current_screenshot>>
    /\ UNCHANGED <<goto_timeout, created_from, browser, playwright, page, mode, queue, idx, cur, comparison_result, results, baseline_results, runs, env>>

\* comparison_result = await self._compare_with_baseline(...) and the return
\* statement that builds the result dictionary from it
CompareWithBaseline(ok1, ok2, s, okVis) ==
    /\ pc = "compare"
    /\ mode = "visual"
    /\ Outcome(ok1 /\ ok2 /\ okVis)
    /\ ~Exists(fs, BaselinePath(cur.name)) => ok1 /\ ok2 /\ okVis
    /\ ~(ok1 /\ ok2) => okVis
    /\ s \in SimilarityChoices(fs, BaselinePath(cur.name), current_screenshot,
                               ok1, ok2, ssim_available)
    /\ LET r == CompareWithBaselineOn(fs, cur.name, current_screenshot,
                                      ok1, ok2, s, okVis)
       IN  /\ fs' = r.fs
           /\ comparison_result' = r.ret
           /\ result' = TestResult(cur, current_screenshot, r.ret)
           /\ created_from' =
                 IF "first_run" \in DOMAIN r.ret
                 THEN Put(created_from, r.ret.baseline_path, fs[current_screenshot])
                 ELSE created_from
    /\ pc' = "finally"
    /\ UNCHANGED <<goto_timeout, browser, playwright, page, mode, queue, idx, cur, current_screenshot, results, baseline_results, runs, env>>

\* the finally clause of _run_single_visual_test and results.append(result),
\* after which the locals of the call are gone; when page.close() raises, the
\* except branch of run_visual_tests runs instead
Finally(ok) ==
    /\ pc = "finally"
    /\ goto_timeout' = 0
    /\ page = None => ok
    /\ Outcome(page = None \/ ok)
    /\ mode = "visual"
    /\ IF page = None \/ ok
       THEN /\ page' = None
            /\ results' = Append(results, result)
            /\ pc' = "loop"
       ELSE /\ page' = page
            /\ results' = Append(results, BatchErrorResult("close failed"))
            /\ pc' = "stopping"
    /\ cur' = NoTest
    /\ current_screenshot' = NoPath
    /\ comparison_result' = NoResult
    /\ result' = NoResult
    /\ UNCHANGED <<created_from, fs, browser, playwright, mode, queue, idx,
                   baseline_results, runs, env>>

\* the for loop of run_visual_tests is exhausted
LoopDone ==
    /\ pc = "loop"
    /\ mode = "visual"
    /\ queue = <<>>
    /\ pc' = "stopping"
    /\ UNCHANGED <<goto_timeout, created_from, fs, browser, playwright, page, mode, queue, idx, cur,
                   current_screenshot, comparison_result, result,
                   results, baseline_results, runs, faults, env>>

\* finally: await self.stop_browser(), then the call returns; when
\* stop_browser raises, the exception leaves the call and nothing is returned
StopBrowser(okBrowser, okPlaywright) ==
    /\ pc = "stopping"
    /\ mode \in {"visual", "baseline"}
    /\ browser = None => okBrowser
    /\ (playwright = None \/ ~okBrowser) => okPlaywright
    /\ Outcome(okBrowser /\ okPlaywright)
    /\ LET s == StopBrowserOn(browser, playwright, okBrowser, okPlaywright)
       IN  /\ browser' = s.browser
           /\ playwright' = s.playwright
           /\ page' = IF s.browser = None THEN None ELSE page
           /\ mode' = IF s.raised THEN mode ELSE "none"
           /\ pc' = IF s.raised THEN "raised" ELSE "idle"
    /\ UNCHANGED <<goto_timeout, created_from, fs, queue, idx, cur, current_screenshot,
                   comparison_result, result, results, baseline_results,
                   runs, env>>

------------------------------------------------------------------------------
(* create_baseline_suite *)

CreatedEntry(url, baseline_path, test_name) ==
    [url |-> url, baseline_path |-> baseline_path, test_name |-> test_name]

FailedEntry(url, msg) == [url |-> url, error |-> msg]

AddFailed(br, url, msg) ==
    [br EXCEPT !.failed = Append(@, FailedEntry(url, msg))]

\* create_baseline_suite(urls): the results dictionary and start_browser()
StartBaselineSuite(urls, okPlaywright, ok) ==
    /\ pc = "idle"
    /\ goto_timeout' = 0
    /\ ~okPlaywright => ok
    /\ Outcome(okPlaywright /\ ok)
    /\ runs + Len(urls) <= MaxRuns
    /\ runs' = runs + Len(urls)
    /\ mode' = "baseline"
    /\ queue' = urls
    /\ idx' = 0
    /\ playwright' = StartBrowserOn(okPlaywright, ok).playwright
    /\ browser' = StartBrowserOn(okPlaywright, ok).browser
    /\ cur' = NoTest
    /\ current_screenshot' = NoPath
    /\ comparison_result' = NoResult
    /\ result' = NoResult
    /\ baseline_results' = [created |-> <<>>, failed |-> <<>>, total |-> Len(urls)]
    /\ pc' = IF StartBrowserOn(okPlaywright, ok).raised THEN "stopping" ELSE "loop"
    /\ UNCHANGED <<created_from, fs, page, results, env>>

\* for i, url in enumerate(urls): test_name = f"baseline_{i+1}"
NextUrl ==
    /\ pc = "loop"
    /\ goto_timeout' = 0
    /\ mode = "baseline"
    /\ queue # <<>>
    /\ cur' = [name |-> BaselineSuiteName(idx), url |-> Head(queue),
               type |-> "full_page"]
    /\ idx' = idx + 1
    /\ queue' = Tail(queue)
    /\ pc' = "new_page"
    /\ UNCHANGED <<created_from, fs, browser, playwright, page, mode, current_screenshot,
                   comparison_result, result, results, baseline_results,
                   runs, faults, env>>

\* page = await self.browser.new_page() and the viewport and timeout settings
BaselineNewPage(ok) ==
    /\ pc = "new_page"
    /\ goto_timeout' = IF ok THEN FirstTimeout ELSE 0
    /\ Outcome(ok)
    /\ mode = "baseline"
    /\ IF ok
       THEN /\ page' = "open"
            /\ pc' = "goto1"
            /\ UNCHANGED baseline_results
       ELSE /\ page' = None
            /\ baseline_results' = AddFailed(baseline_results, cur.url,
                                             "new_page failed")
            /\ pc' = "finally"
    /\ UNCHANGED <<created_from, fs, browser, playwright, mode, queue, idx, cur, current_screenshot, comparison_result, result, results,
                   runs, env>>

\* the first navigation, timeout=30000
BaselineGoto1(ok) ==
    /\ pc = "goto1"
    /\ goto_timeout' = IF ok THEN 0 ELSE RetryTimeout
    /\ mode = "baseline"
    /\ pc' = IF ok THEN "screenshot" ELSE "goto2"
    /\ UNCHANGED <<created_from, fs, browser, playwright, page, mode, queue, idx, cur,
                   current_screenshot, comparison_result, result, results,
                   baseline_results, runs, faults, env>>

\* the retry, timeout=60000
BaselineGoto2(ok) ==
    /\ pc = "goto2"
    /\ goto_timeout' = 0
    /\ Outcome(ok)
    /\ mode = "baseline"
    /\ IF ok
       THEN /\ pc' = "screenshot"
            /\ UNCHANGED baseline_results
       ELSE /\ baseline_results' = AddFailed(baseline_results, cur.url,
                                             "navigation timeout")
            /\ pc' = "finally"
    /\ UNCHANGED <<created_from, fs, browser, playwright, page, mode, queue, idx, cur,
                   current_screenshot, comparison_result, result, results,
                   runs, env>>

\* await page.screenshot(path=str(baseline_path), full_page=True) and
\* results["created"].append(...)
BaselineScreenshot(ok, img) ==
    /\ pc = "screenshot"
    /\ Outcome(ok)
    /\ mode = "baseline"
    /\ LET baseline_path == MkPath(BaselineDir, PngName(cur.name))
       IN  IF ok
           THEN /\ fs' = Put(fs, baseline_path, img)
                /\ created_from' = Put(created_from, baseline_path, img)
                /\ baseline_results' =
                      [baseline_results EXCEPT !.created =
                          Append(@, CreatedEntry(cur.url, baseline_path, cur.name))]
           ELSE /\ baseline_results' = AddFailed(baseline_results, cur.url,
                                                 "screenshot failed")
                /\ UNCHANGED <<fs, created_from>>
    /\ pc' = "finally"
    /\ UNCHANGED <<goto_timeout, browser, playwright, page, mode, queue, idx, cur, current_screenshot, comparison_result, result, results,
                   runs, env>>

\* the inner finally clause; when page.close() raises, the outer except
\* branch logs it and the loop is left
BaselineFinally(ok) ==
    /\ pc = "finally"
    /\ goto_timeout' = 0
    /\ page = None => ok
    /\ Outcome(page = None \/ ok)
    /\ mode = "baseline"
    /\ IF page = None \/ ok
       THEN /\ page' = None
            /\ pc' = "loop"
       ELSE /\ page' = page
            /\ pc' = "stopping"
    /\ cur' = NoTest
    /\ UNCHANGED <<created_from, fs, browser, playwright, mode, queue, idx,
                   current_screenshot, comparison_result, result, results,
                   baseline_results, runs, env>>

\* the for loop of create_baseline_suite is exhausted
BaselineLoopDone ==
    /\ pc = "loop"
    /\ mode = "baseline"
    /\ queue = <<>>
    /\ pc' = "stopping"
    /\ UNCHANGED <<goto_timeout, created_from, fs, browser, playwright, page, mode, queue, idx, cur,
                   current_screenshot, comparison_result, result,
                   results, baseline_results, runs, faults, env>>

Next ==
    \/ \E tests \in ListsUpTo(InputTests, MaxTests), okPlaywright, ok \in BOOLEAN :
          StartVisualTests(tests, okPlaywright, ok)
    \/ NextTest
    \/ \E ok \in BOOLEAN : NewPage(ok)
    \/ \E ok \in BOOLEAN : Goto1(ok)
    \/ \E ok \in BOOLEAN : Goto2(ok)
    \/ \E ok \in BOOLEAN, img \in Captures : TakeScreenshot(ok, img)
    \/ \E ok1, ok2, okVis \in BOOLEAN, s \in SsimValues \cup {Zero, One}
             \cup {Rat(k, 6) : k \in 0..6} :
          CompareWithBaseline(ok1, ok2, s, okVis)
    \/ \E ok \in BOOLEAN : Finally(ok)
    \/ LoopDone
    \/ \E okBrowser, okPlaywright \in BOOLEAN : StopBrowser(okBrowser, okPlaywright)
    \/ \E urls \in ListsUpTo(URLs, MaxTests), okPlaywright, ok \in BOOLEAN :
          StartBaselineSuite(urls, okPlaywright, ok)
    \/ NextUrl
    \/ \E ok \in BOOLEAN : BaselineNewPage(ok)
    \/ \E ok \in BOOLEAN : BaselineGoto1(ok)
    \/ \E ok \in BOOLEAN : BaselineGoto2(ok)
    \/ \E ok \in BOOLEAN, img \in Captures : BaselineScreenshot(ok, img)
    \/ \E ok \in BOOLEAN : BaselineFinally(ok)
    \/ BaselineLoopDone

Spec == Init /\ [][Next]_vars

------------------------------------------------------------------------------
(* run_cross_browser_visual_test *)

\* browsers = ['chromium', 'firefox', 'webkit']
Browsers == <<"chromium", "firefox", "webkit">>

\* a Python dict: the sequence of its items in insertion order
DictKeys(d) == {d[i].key : i \in 1..Len(d)}

DictGet(d, k) == d[CHOOSE i \in 1..Len(d) : d[i].key = k].value

\* d[k] = v: a new key goes to the end, an old key keeps its place
DictSet(d, k, v) ==
    IF k \in DictKeys(d)
    THEN [i \in 1..Len(d) |-> IF d[i].key = k THEN [key |-> k, value |-> v]
                                              ELSE d[i]]
    ELSE Append(d, [key |-> k, value |-> v])

\* self.current_dir / f"{test.get('name', 'test')}_{browser_name}.png"
CrossScreenshotPath(test_name, name) ==
    MkPath(CurrentDir, test_name \o <<"_", name, PNG>>)

\* results[browser_name] = {"status": "success", "screenshot": ...}
CrossSuccess(screenshot_path) ==
    [status |-> "success", screenshot |-> screenshot_path]

\* results[browser_name] = {"status": "error", "error": str(e)}
CrossError(msg) == [status |-> "error", error |-> msg]

IsSuccess(item) ==
    /\ Get(item.value, "status", "") = "success"
    /\ "screenshot" \in DOMAIN item.value

\* len([r for r in results.values() if r.get('status') == 'success'])
SuccessCount(d) ==
    Cardinality({i \in 1..Len(d) : Get(d[i].value, "status", "") = "success"})

\* browser_screenshots of _compare_cross_browser_screenshots: browser ->
\* screenshot path, for the successful captures in the order of the dict
BrowserScreenshots(browser_results) ==
    LET shots == SelectSeq(browser_results, IsSuccess)
    IN  [i \in 1..Len(shots) |->
            [key |-> shots[i].key, value |-> shots[i].value.screenshot]]

\* mutant of ComparisonKey: the key names the first browser only
ComparisonKeyFirstOnly(browser1, browser2) == <<browser1, "_vs_", browser1>>

\* comparison_key = f"{browser1}_vs_{browser2}"
ComparisonKey(browser1, browser2) == <<browser1, "_vs_", browser2>>

\* self.diff_dir / f"{test_name}_{comparison_key}_diff.png"
CrossDiffPath(test_name, comparison_key) ==
    MkPath(DiffDir, test_name \o <<"_">> \o comparison_key \o DiffSuffix)

\* the entry written from the dictionary compare_screenshots returned
PairEntry(comparison) ==
    [similarity |-> Get(comparison, "similarity", Zero),
     passed |-> Get(comparison, "passed", FALSE),
     differences_found |-> Get(comparison, "differences_found", FALSE)]

\* the entry written by the except branch of the pair loop
PairError(msg) == [error |-> msg]

\* mutant of NextPair: the inner loop starts over at the first browser
NextPairFromStart(p, n) ==
    IF p[2] < n THEN <<p[1], p[2] + 1>> ELSE <<p[1] + 1, 1>>

\* for i in range(n): for j in range(i + 1, n): the indices (1-based) after
\* <<i, j>>; the loops are over when the first index reaches n
NextPair(p, n) ==
    IF p[2] < n THEN <<p[1], p[2] + 1>> ELSE <<p[1] + 1, p[1] + 2>>

\* one iteration of the pair loop on store f for the screenshots shots[i] and
\* shots[j]: ok1, ok2 say whether compare_screenshots can read the two files,
\* s is the similarity it measures, okRead whether the files can be read again
\* for the picture and okSide whether drawing and writing it raises nothing
CrossCompareOn(f, test_name, shots, i, j, ok1, ok2, s, okRead, okSide) ==
    LET browser1 == shots[i].key
        browser2 == shots[j].key
        comparison_key == ComparisonKey(browser1, browser2)
        c == CompareScreenshots(f, shots[i].value, shots[j].value, ok1, ok2, s)
        entry == PairEntry(c.comparison)
    IN  IF ~Get(c.comparison, "differences_found", FALSE)
        THEN [fs |-> c.fs, key |-> comparison_key, entry |-> entry,
              comparison |-> c.comparison]
        ELSE
          LET diff_path == CrossDiffPath(test_name, comparison_key)
              baseline_img == Imread(c.fs, shots[i].value, okRead)
              current_raw == Imread(c.fs, shots[j].value, okRead)
          IN  IF baseline_img = NoImage \/ current_raw = NoImage
              THEN [fs |-> c.fs, key |-> comparison_key, entry |-> entry,
                    comparison |-> c.comparison]
              ELSE IF ~okSide
              THEN [fs |-> c.fs, key |-> comparison_key,
                    entry |-> PairError("side-by-side failed"),
                    comparison |-> c.comparison]
              ELSE
                LET current_img == SameShapeAs(baseline_img, current_raw)
                IN  [fs |-> Put(c.fs, diff_path,
                                CreateSideBySideComparison(baseline_img,
                                                           current_img)),
                     key |-> comparison_key,
                     entry |-> [similarity |-> entry.similarity,
                                passed |-> entry.passed,
                                differences_found |-> entry.differences_found,
                                diff_image |-> diff_path],
                     comparison |-> c.comparison]

\* the variables of the batch calls that the cross-browser call leaves alone
batch == <<browser, playwright, idx, current_screenshot, comparison_result,
           result, results, baseline_results, created_from, faults,
           ssim_available, config_threshold, cv_pc, cv_out, standalone>>

\* run_cross_browser_visual_test(test): results = {} and
\* async_playwright().start(); the call is explored on a fresh store and
\* takes the whole budget of units
StartCrossBrowser(test, ok) ==
    /\ pc = "idle"
    /\ goto_timeout' = 0
    /\ runs = 0
    /\ runs' = MaxRuns
    /\ mode' = "cross"
    /\ cur' = test
    /\ cross_results' = <<>>
    /\ comparisons' = <<>>
    /\ visited' = <<>>
    /\ pair' = <<0, 0>>
    /\ browser_name' = None
    /\ local_browser' = None
    /\ IF ok
       THEN /\ local_playwright' = "started"
            /\ queue' = Browsers
            /\ pc' = "loop"
       ELSE /\ local_playwright' = None
            /\ queue' = <<>>
            /\ pc' = "raised"
    /\ UNCHANGED <<fs, page, batch>>

\* for browser_name in browsers: browser = None; page = None
NextBrowser ==
    /\ pc = "loop"
    /\ goto_timeout' = 0
    /\ mode = "cross"
    /\ queue # <<>>
    /\ browser_name' = Head(queue)
    /\ queue' = Tail(queue)
    /\ pc' = "launch"
    /\ UNCHANGED <<fs, page, mode, cur, runs, local_browser, local_playwright,
                   cross_results, comparisons, pair, visited, batch>>

\* browser = await playwright.<browser_name>.launch(...)
CrossLaunch(ok) ==
    /\ pc = "launch"
    /\ mode = "cross"
    /\ IF ok
       THEN /\ local_browser' = "open"
            /\ pc' = "new_page"
            /\ UNCHANGED cross_results
       ELSE /\ local_browser' = None
            /\ cross_results' = DictSet(cross_results, browser_name,
                                        CrossError("launch failed"))
            /\ pc' = "finally"
    /\ UNCHANGED <<goto_timeout, fs, page, mode, queue, cur, runs, browser_name,
                   local_playwright, comparisons, pair, visited, batch>>

\* page = await browser.new_page() and the viewport and timeout settings
CrossNewPage(ok) ==
    /\ pc = "new_page"
    /\ goto_timeout' = IF ok THEN FirstTimeout ELSE 0
    /\ mode = "cross"
    /\ IF ok
       THEN /\ page' = "open"
            /\ pc' = "goto1"
            /\ UNCHANGED cross_results
       ELSE /\ page' = None
            /\ cross_results' = DictSet(cross_results, browser_name,
                                        CrossError("new_page failed"))
            /\ pc' = "finally"
    /\ UNCHANGED <<fs, mode, queue, cur, runs, browser_name, local_browser,
                   local_playwright, comparisons, pair, visited, batch>>

\* the first navigation, timeout=30000
CrossGoto1(ok) ==
    /\ pc = "goto1"
    /\ goto_timeout' = IF ok THEN 0 ELSE RetryTimeout
    /\ mode = "cross"
    /\ pc' = IF ok THEN "screenshot" ELSE "goto2"
    /\ UNCHANGED <<fs, page, mode, queue, cur, runs, cross, batch>>

\* the retry, timeout=60000
CrossGoto2(ok) ==
    /\ pc = "goto2"
    /\ goto_timeout' = 0
    /\ mode = "cross"
    /\ IF ok
       THEN /\ pc' = "screenshot"
            /\ UNCHANGED cross_results
       ELSE /\ cross_results' = DictSet(cross_results, browser_name,
                                        CrossError("navigation timeout"))
            /\ pc' = "finally"
    /\ UNCHANGED <<fs, page, mode, queue, cur, runs, browser_name,
                   local_browser, local_playwright, comparisons, pair,
                   visited, batch>>

\* await page.screenshot(path=str(screenshot_path), full_page=True) and
\* results[browser_name] = {...}
CrossScreenshot(ok, img) ==
    /\ pc = "screenshot"
    /\ mode = "cross"
    /\ LET screenshot_path == CrossScreenshotPath(cur.name, browser_name)
       IN  IF ok
           THEN /\ fs' = Put(fs, screenshot_path, img)
                /\ cross_results' = DictSet(cross_results, browser_name,
                                            CrossSuccess(screenshot_path))
           ELSE /\ cross_results' = DictSet(cross_results, browser_name,
                                            CrossError("screenshot failed"))
                /\ UNCHANGED fs
    /\ pc' = "finally"
    /\ UNCHANGED <<goto_timeout, page, mode, queue, cur, runs, browser_name, local_browser,
                   local_playwright, comparisons, pair, visited, batch>>

\* mutant of CrossFinally: the browser is closed and the page is not
CrossFinallyBrowserOnly(okPage, okBrowser) ==
    /\ pc = "finally"
    /\ goto_timeout' = 0
    /\ mode = "cross"
    /\ page = None => okPage
    /\ (local_browser = None \/ ~okPage) => okBrowser
    /\ page' = page
    /\ local_browser' = IF okPage /\ okBrowser THEN None ELSE local_browser
    /\ pc' = IF okPage /\ okBrowser THEN "loop" ELSE "unwinding"
    /\ UNCHANGED <<fs, mode, queue, cur, runs, browser_name, local_playwright,
                   cross_results, comparisons, pair, visited, batch>>

\* finally: if page: await page.close(); if browser: await browser.close().
\* An exception of either leaves the for loop; when page.close() raises,
\* browser.close() is not reached
CrossFinally(okPage, okBrowser) ==
    /\ pc = "finally"
    /\ goto_timeout' = 0
    /\ mode = "cross"
    /\ page = None => okPage
    /\ (local_browser = None \/ ~okPage) => okBrowser
    /\ page' = IF okPage THEN None ELSE page
    /\ local_browser' = IF okPage /\ okBrowser THEN None ELSE local_browser
    /\ pc' = IF okPage /\ okBrowser THEN "loop" ELSE "unwinding"
    /\ UNCHANGED <<fs, mode, queue, cur, runs, browser_name, local_playwright,
                   cross_results, comparisons, pair, visited, batch>>

\* mutant of CapturesSettled: the comparison may start once two browsers
\* have an outcome
CapturesSettledEarly(q) == Len(q) <= 1

\* the for loop over the browsers is exhausted
CapturesSettled(q) == q = <<>>

\* if len([... 'success']) > 1: the pair loop is entered with
\* comparisons = {}, else the call goes on to its finally clause
CrossLoopDone ==
    /\ pc = "loop"
    /\ mode = "cross"
    /\ CapturesSettled(queue)
    /\ IF SuccessCount(cross_results) > 1
       THEN /\ pc' = "pairs"
            /\ pair' = <<1, 2>>
       ELSE /\ pc' = "stopping"
            /\ UNCHANGED pair
    /\ comparisons' = <<>>
    /\ UNCHANGED <<goto_timeout, fs, page, mode, queue, cur, runs, browser_name,
                   local_browser, local_playwright, cross_results, visited,
                   batch>>

\* one iteration of the loops of _compare_cross_browser_screenshots
ComparePair(ok1, ok2, s, okRead, okSide) ==
    /\ pc = "pairs"
    /\ mode = "cross"
    /\ LET shots == BrowserScreenshots(cross_results)
           i == pair[1]
           j == pair[2]
       IN  /\ i < Len(shots)
           /\ ~(ok1 /\ ok2) => okRead /\ okSide
           /\ ~okRead => okSide
           /\ s \in SimilarityChoices(fs, shots[i].value, shots[j].value,
                                      ok1, ok2, ssim_available)
           /\ LET r == CrossCompareOn(fs, cur.name, shots, i, j,
                                      ok1, ok2, s, okRead, okSide)
              IN  /\ fs' = r.fs
                  /\ comparisons' = DictSet(comparisons, r.key, r.entry)
                  /\ visited' = Append(visited,
                                        [browser1 |-> shots[i].key,
                                         browser2 |-> shots[j].key,
                                         comparison |-> r.comparison])
           /\ pair' = NextPair(pair, Len(shots))
    /\ UNCHANGED <<goto_timeout, page, pc, mode, queue, cur, runs, browser_name,
                   local_browser, local_playwright, cross_results, batch>>

\* return comparisons and results['cross_browser_comparison'] = ...
PairsDone ==
    /\ pc = "pairs"
    /\ mode = "cross"
    /\ pair[1] >= Len(BrowserScreenshots(cross_results))
    /\ cross_results' = DictSet(cross_results, "cross_browser_comparison",
                                comparisons)
    /\ pc' = "stopping"
    /\ UNCHANGED <<goto_timeout, fs, page, mode, queue, cur, runs, browser_name,
                   local_browser, local_playwright, comparisons, pair,
                   visited, batch>>

\* finally: if playwright: await playwright.stop(); then return results, or
\* let the pending exception go on to the caller
StopPlaywright(ok) ==
    /\ pc \in {"stopping", "unwinding"}
    /\ mode = "cross"
    /\ local_playwright' = IF ok THEN "stopped" ELSE local_playwright
    /\ pc' = IF ok /\ pc = "stopping" THEN "returned" ELSE "raised"
    /\ UNCHANGED <<goto_timeout, fs, page, mode, queue, cur, runs, browser_name,
                   local_browser, cross_results, comparisons, pair, visited,
                   batch>>

\* the pictures a browser can render: the page, the page with a dark region,
\* and the page with a dark region and a region whose colour differs from
\* the page in the blue channel only
ImgG == MkImage(2, 1, <<Yellow, Black>>)

CrossCaptures == {ImgA, ImgB, ImgG}

NextCross ==
    \/ \E test \in InputTests, ok \in BOOLEAN : StartCrossBrowser(test, ok)
    \/ NextBrowser
    \/ \E ok \in BOOLEAN : CrossLaunch(ok)
    \/ \E ok \in BOOLEAN : CrossNewPage(ok)
    \/ \E ok \in BOOLEAN : CrossGoto1(ok)
    \/ \E ok \in BOOLEAN : CrossGoto2(ok)
    \/ \E ok \in BOOLEAN, img \in CrossCaptures : CrossScreenshot(ok, img)
    \/ \E okPage, okBrowser \in BOOLEAN : CrossFinally(okPage, okBrowser)
    \/ CrossLoopDone
    \/ \E ok1, ok2, okRead, okSide \in BOOLEAN,
          s \in SsimValues \cup {Zero, One} \cup {Rat(k, 6) : k \in 0..6} :
          ComparePair(ok1, ok2, s, okRead, okSide)
    \/ PairsDone
    \/ \E ok \in BOOLEAN : StopPlaywright(ok)

SpecCross == Init /\ [][NextCross]_vars

\* a session in which any of the three entry points is called
NextAll == Next \/ NextCross

SpecAll == Init /\ [][NextAll]_vars

------------------------------------------------------------------------------
(* compare_screenshots called directly on two stored images *)

CvPath1 == MkPath(CurrentDir, <<"a", PNG>>)

CvPath2 == MkPath(CurrentDir, <<"b", PNG>>)

\* the stores in which each of the two files is an image of Images or cannot
\* be read (is absent)
CvStores ==
    {[p \in D |-> IF p = CvPath1 THEN i1 ELSE i2] :
        <<D, i1, i2>> \in (SUBSET {CvPath1, CvPath2}) \X Images \X Images}

lifecycle == <<browser, playwright, page, pc, mode, queue, idx, cur, goto_timeout, current_screenshot, comparison_result, result, results,
               baseline_results, created_from, runs, faults>>

InitCompare ==
    /\ DetectorInit
    /\ DerivationInit
    /\ AgentInit
    /\ fs \in CvStores
    /\ browser = None
    /\ playwright = None
    /\ page = None
    /\ pc = "idle"
    /\ mode = "none"
    /\ queue = <<>>
    /\ idx = 0
    /\ cur = NoTest
    /\ goto_timeout = 0
    /\ current_screenshot = NoPath
    /\ comparison_result = NoResult
    /\ result = NoResult
    /\ results = <<>>
    /\ baseline_results = NoResult
    /\ created_from = <<>>
    /\ browser_name = None
    /\ local_browser = None
    /\ local_playwright = None
    /\ cross_results = <<>>
    /\ comparisons = <<>>
    /\ pair = <<0, 0>>
    /\ visited = <<>>
    /\ cv_pc = "ready"
    /\ cv_out = NoResult
    /\ runs = 0
    /\ faults = 0
    /\ ssim_available \in BOOLEAN
    /\ config_threshold \in ConfigThresholds

\* comparison = self.cv_utils.compare_screenshots(image1_path, image2_path)
CvCompare(s) ==
    /\ cv_pc = "ready"
    /\ s \in SimilarityChoices(fs, CvPath1, CvPath2, TRUE, TRUE, ssim_available)
    /\ LET c == CompareScreenshots(fs, CvPath1, CvPath2, TRUE, TRUE, s)
       IN  /\ fs' = c.fs
           /\ cv_out' = c.comparison
    /\ cv_pc' = "done"
    /\ UNCHANGED <<lifecycle, cross, ssim_available, config_threshold,
                   standalone>>

NextCompare ==
    \E s \in SsimValues \cup {Zero, One} \cup {Rat(k, 6) : k \in 0..6} :
        CvCompare(s)

SpecCompare == InitCompare /\ [][NextCompare]_vars

------------------------------------------------------------------------------
(* detect_ui_elements called on one image file *)

\* the bounding rectangle cv2.boundingRect returns for a contour
Rect(x, y, w, h) == [x |-> x, y |-> y, width |-> w, height |-> h]

Element(type, r, confidence) ==
    [type |-> type, bounds |-> r, confidence |-> confidence]

\* if 20 < w < 300 and 20 < h < 80 and 0.2 < h/w < 2; the quotient of two
\* integers in this range is never rounded across 0.2 or 2, so the float
\* comparison is the exact one
IsButton(w, h) ==
    /\ 20 < w /\ w < 300
    /\ 20 < h /\ h < 80
    /\ RatLt(Rat(2, 10), Rat(h, w)) /\ RatLt(Rat(h, w), Rat(2, 1))

\* if 50 < w < 400 and 15 < h < 50 and w/h > 2
IsTextField(w, h) ==
    /\ 50 < w /\ w < 400
    /\ 15 < h /\ h < 50
    /\ RatLt(Rat(2, 1), Rat(w, h))

\* if w > 100 and h > 100
IsImage(w, h) == w > 100 /\ h > 100

\* _detect_buttons(gray, img): the external contours of the gray image
DetectButtons(rects) ==
    LET kept == SelectSeq(rects, LAMBDA r : IsButton(r.width, r.height))
    IN  [i \in 1..Len(kept) |-> Element("button", kept[i], Rat(7, 10))]

\* _detect_text_fields(gray, img): the contours of the Canny edges
DetectTextFields(rects) ==
    LET kept == SelectSeq(rects, LAMBDA r : IsTextField(r.width, r.height))
    IN  [i \in 1..Len(kept) |-> Element("input", kept[i], Rat(6, 10))]

\* _detect_images(gray, img): the external contours of the gray image
DetectImages(rects) ==
    LET kept == SelectSeq(rects, LAMBDA r : IsImage(r.width, r.height))
    IN  [i \in 1..Len(kept) |-> Element("image", kept[i], Rat(5, 10))]

\* the three detectors run whatever the file is
DetectUiElementsUnguarded(file, cs) ==
    DetectButtons(cs.gray) \o DetectTextFields(cs.edges) \o DetectImages(cs.gray)

\* detect_ui_elements(image_path): cv2.imread returns None for a file that
\* is missing, empty or not an image, cv2.cvtColor raises on None and the
\* except branch returns []
DetectUiElements(file, cs) ==
    IF file # "image"
    THEN <<>>
    ELSE DetectButtons(cs.gray) \o DetectTextFields(cs.edges)
             \o DetectImages(cs.gray)

\* what the file at image_path can be
ImageFiles == {"image", "missing", "empty", "undecodable"}

\* rectangles whose widths and heights lie on and around the limits of the
\* three filters
Regions ==
    {Rect(0, 0, w, h) :
        <<w, h>> \in {20, 21, 50, 51, 101, 120, 250, 299, 300, 400}
                     \X {15, 16, 20, 21, 49, 50, 79, 80, 101, 120}}

\* one region of the picture, which each of the two contour passes finds or
\* misses
ContourChoices ==
    {[gray |-> IF g THEN <<r>> ELSE <<>>, edges |-> IF e THEN <<r>> ELSE <<>>] :
        <<r, g, e>> \in Regions \X BOOLEAN \X BOOLEAN}

InitDetect ==
    /\ VisualTesterInit
    /\ DerivationInit
    /\ AgentInit
    /\ ui_pc = "ready"
    /\ image_file \in ImageFiles
    /\ contours \in ContourChoices
    /\ elements = <<>>

\* elements = cv_utils.detect_ui_elements(image_path)
DetectElements ==
    /\ ui_pc = "ready"
    /\ elements' = DetectUiElements(image_file, contours)
    /\ ui_pc' = "done"
    /\ UNCHANGED <<lifecycle, cross, fs, cv_pc, cv_out, ssim_available,
                   config_threshold, image_file, contours, derivation, agent>>

SpecDetect == InitDetect /\ [][DetectElements]_vars

------------------------------------------------------------------------------
(* The paths VisualTester derives from the names of two tests *)

\* the characters of a test name: a letter in both cases, the space that
\* _take_screenshot replaces and the underscore it is replaced by
TestNameChars == {"a", "A", " ", "_"}

RECURSIVE NamesOfLen(_)
NamesOfLen(n) ==
    IF n = 0
    THEN {<<>>}
    ELSE {Append(s, c) : <<s, c>> \in NamesOfLen(n - 1) \X TestNameChars}

TestNames == UNION {NamesOfLen(n) : n \in 1..MaxNameLen}

\* the files a test of this name writes: the current screenshot, the
\* baseline, the three-panel visualization, and the diff image that
\* compare_screenshots puts next to its first argument, the baseline
ArtifactPaths(test_name) ==
    [current |-> ScreenshotPath(test_name),
     baseline |-> BaselinePath(test_name),
     diff |-> DiffVisualizationPath(test_name),
     diff_image |-> DiffImagePath(BaselinePath(test_name))]

InitPaths ==
    /\ VisualTesterInit
    /\ DetectorInit
    /\ AgentInit
    /\ path_pc = "ready"
    /\ names \in TestNames \X TestNames
    /\ artifact_paths = <<>>

\* the two tests are processed: each derives its paths from its name
DerivePaths ==
    /\ path_pc = "ready"
    /\ artifact_paths' = <<ArtifactPaths(names[1]), ArtifactPaths(names[2])>>
    /\ path_pc' = "done"
    /\ UNCHANGED <<lifecycle, cross, fs, cv_pc, cv_out, ssim_available,
                   config_threshold, names, detector, agent>>

SpecPaths == InitPaths /\ [][DerivePaths]_vars

------------------------------------------------------------------------------
(* TestAgent.continuous_testing *)

\* what analyze_application returns: the combined analysis, of which
\* _detect_changes reads the number of pages and of forms (rev tells two
\* analyses with the same numbers apart), or {"error": ...}
Analyses ==
    {[pages |-> p, forms |-> f, rev |-> r] : <<p, f, r>> \in (1..2) \X (0..1) \X (1..2)}
        \cup {[error |-> "analysis failed"]}

\* _detect_changes(baseline, current): len(x.get("pages", [])) and
\* len(x.get("forms", [])) are compared
DetectChanges(baseline, current) ==
    (IF Get(baseline, "pages", 0) # Get(current, "pages", 0)
     THEN <<"Page count changed">> ELSE <<>>)
    \o (IF Get(baseline, "forms", 0) # Get(current, "forms", 0)
        THEN <<"Form count changed">> ELSE <<>>)

\* what generate_test_suite returns: a suite of so many tests, or
\* {"error": ...} from its except branch
TestSuites == {[tests |-> n] : n \in 0..2} \cup {[error |-> "generation failed"]}

ResultStatuses == {"passed", "failed"}

RECURSIVE StatusLists(_)
StatusLists(n) ==
    IF n = 0
    THEN {<<>>}
    ELSE {Append(s, x) : <<s, x>> \in StatusLists(n - 1) \X ResultStatuses}

\* _generate_test_summary(results)
GenerateTestSummary(statuses) ==
    LET total_tests == Len(statuses)
        passed_tests == Cardinality({i \in 1..Len(statuses) : statuses[i] = "passed"})
    IN  [total |-> total_tests,
         passed |-> passed_tests,
         failed |-> total_tests - passed_tests,
         success_rate |-> IF total_tests > 0
                          THEN Rat(passed_tests * 100, total_tests)
                          ELSE Zero]

\* what execute_tests(test_suite) can return: the results of the tests of
\* the suite with their summary (a suite without test lists, such as
\* {"error": ...}, runs nothing), or {"error": ...} from its except branch
ExecuteTests(suite) ==
    {[statuses |-> s, summary |-> GenerateTestSummary(s)] :
        s \in StatusLists(Get(suite, "tests", 0))}
        \cup {[error |-> "execution failed"]}

\* _tests_passed(results): results.get("summary", {}).get("failed", 0) == 0
TestsPassed(r) == Get(Get(r, "summary", [total |-> 0]), "failed", 0) = 0

InitAgent ==
    /\ VisualTesterInit
    /\ DetectorInit
    /\ DerivationInit
    /\ agent_pc = "analyze"
    /\ baseline_analysis = NoResult
    /\ current_analysis = NoResult
    /\ changes = <<>>
    /\ test_suite = NoResult
    /\ exec_results = NoResult

others == <<lifecycle, cross, fs, cv_pc, cv_out, ssim_available,
            config_threshold, detector, derivation>>

\* current_analysis = await self.analyze_application(url), then the baseline
\* is established or compared with; an exception (stop_browser raising in
\* the finally clause of analyze_application) is logged by the loop
Analyze(a, ok) ==
    /\ agent_pc = "analyze"
    /\ IF ~ok
       THEN /\ agent_pc' = "sleep"
            /\ UNCHANGED <<baseline_analysis, current_analysis, changes>>
       ELSE /\ current_analysis' = a
            /\ IF baseline_analysis = NoResult
               THEN /\ baseline_analysis' = a
                    /\ agent_pc' = "sleep"
                    /\ UNCHANGED changes
               ELSE /\ changes' = DetectChanges(baseline_analysis, a)
                    /\ agent_pc' = IF changes' # <<>> THEN "generate" ELSE "sleep"
                    /\ UNCHANGED baseline_analysis
    /\ UNCHANGED <<test_suite, exec_results, others>>

\* test_suite = await self.generate_test_suite(current_analysis)
GenerateTestSuite(suite) ==
    /\ agent_pc = "generate"
    /\ test_suite' = suite
    /\ agent_pc' = "execute"
    /\ UNCHANGED <<baseline_analysis, current_analysis, changes, exec_results,
                   others>>

\* results = await self.execute_tests(test_suite) and
\* if self._tests_passed(results): baseline_analysis = current_analysis
ExecuteAndUpdate(r) ==
    /\ agent_pc = "execute"
    /\ r \in ExecuteTests(test_suite)
    /\ exec_results' = r
    /\ baseline_analysis' =
          IF TestsPassed(r) THEN current_analysis ELSE baseline_analysis
    /\ agent_pc' = "sleep"
    /\ UNCHANGED <<current_analysis, changes, test_suite, others>>

\* await asyncio.sleep(...), after which the loop starts over
Sleep ==
    /\ agent_pc = "sleep"
    /\ agent_pc' = "analyze"
    /\ UNCHANGED <<baseline_analysis, current_analysis, changes, test_suite,
                   exec_results, others>>

NextAgent ==
    \/ \E a \in Analyses, ok \in BOOLEAN : Analyze(a, ok)
    \/ \E suite \in TestSuites : GenerateTestSuite(suite)
    \/ \E r \in UNION {ExecuteTests(s) : s \in TestSuites} : ExecuteAndUpdate(r)
    \/ Sleep

SpecAgent == InitAgent /\ [][NextAgent]_vars

------------------------------------------------------------------------------
(* Claims *)

\* a step that is one call of _compare_with_baseline for the current test
CompareStep == pc = "compare" /\ pc' = "finally"

\* a state in which _compare_with_baseline has just returned
Compared == pc = "finally" /\ comparison_result # NoResult

BaselineFiles(f) == {p \in DOMAIN f : p.dir = BaselineDir}

\* C1: when _compare_with_baseline is called and no file exists at the
\* baseline path of the test, the current capture is copied verbatim to that
\* path, the result has passed = true, similarity = 1.0 and first_run = true,
\* and nothing else is computed or written: no other file appears or changes
\* and the result carries no diff path.
C1_FirstRunCreatesBaseline ==
    [][(CompareStep /\ BaselinePath(cur.name) \notin DOMAIN fs) =>
        LET bp == BaselinePath(cur.name)
        IN  /\ DOMAIN fs' = DOMAIN fs \cup {bp}
            /\ fs'[bp] = fs[current_screenshot]
            /\ \A p \in DOMAIN fs : fs'[p] = fs[p]
            /\ comparison_result'.passed = TRUE
            /\ comparison_result'.similarity = One
            /\ "first_run" \in DOMAIN comparison_result'
            /\ comparison_result'.first_run = TRUE
            /\ comparison_result'.baseline_path = bp
            /\ "diff_path" \notin DOMAIN comparison_result'
            /\ "differences_found" \notin DOMAIN comparison_result']_vars

C1_Witness ==
    /\ Compared
    /\ "first_run" \in DOMAIN comparison_result
    /\ BaselinePath(cur.name) \in DOMAIN fs
    /\ fs[BaselinePath(cur.name)] = fs[current_screenshot]

\* C2: the baseline-creation branch is taken exactly when no baseline file
\* exists, it creates exactly one baseline file, and no step removes a file;
\* so for one test identifier starting with no baseline it is taken on the
\* first call only and every later call compares.  A later call whose capture
\* is the unchanged baseline, both images being readable, returns
\* passed = true through the comparison branch.
C2_BaselineCreatedOnce ==
    [][/\ DOMAIN fs \subseteq DOMAIN fs'
       /\ CompareStep =>
            LET bp == BaselinePath(cur.name)
            IN  IF bp \notin DOMAIN fs
                THEN /\ "first_run" \in DOMAIN comparison_result'
                     /\ BaselineFiles(fs') = BaselineFiles(fs) \cup {bp}
                ELSE /\ "first_run" \notin DOMAIN comparison_result'
                     /\ fs'[bp] = fs[bp]
                     /\ (/\ fs[bp] = fs[current_screenshot]
                         /\ "error" \notin DOMAIN comparison_result')
                        => /\ comparison_result'.passed = TRUE
                           /\ comparison_result'.similarity = One]_vars

C2_Witness ==
    /\ Compared
    /\ "first_run" \notin DOMAIN comparison_result
    /\ "error" \notin DOMAIN comparison_result
    /\ fs[BaselinePath(cur.name)] = fs[current_screenshot]
    /\ comparison_result.passed = TRUE

\* C3: a baseline is never overwritten by a comparison run: every baseline
\* file keeps the content of the capture it was created from.
C3_BaselineNeverOverwritten ==
    \A p \in DOMAIN created_from : p \in DOMAIN fs /\ fs[p] = created_from[p]

\* C4: the baseline area holds exactly one file per test identifier that has
\* been given a baseline; a comparison adds no file to the baseline area.
C4_OneBaselineFilePerTest == BaselineFiles(fs) = DOMAIN created_from

\* C5: after create_baseline_suite has run for a URL, a normal visual test of
\* that URL compares against the baseline file that create-baseline wrote.
C5_CreateBaselineFeedsCompare ==
    (Compared /\ baseline_results # NoResult) =>
        \A k \in 1..Len(baseline_results.created) :
            baseline_results.created[k].url = cur.url =>
                /\ comparison_result.baseline_path =
                      baseline_results.created[k].baseline_path
                /\ "first_run" \notin DOMAIN comparison_result

\* C6: the result that run_visual_tests returns for a genuine comparison
\* differs from the result it returns for a baseline-creation run of the
\* same test.
C6_FirstRunDistinguishable ==
    (Compared /\ "first_run" \notin DOMAIN comparison_result) =>
        result # TestResult(cur, current_screenshot,
                            FirstRunResult(BaselinePath(cur.name)))

\* C7: for a comparison with measured similarity s, passed = (s >= threshold)
\* for the threshold of the configuration.
C7_PassedUsesConfiguredThreshold ==
    (cv_pc = "done" /\ "error" \notin DOMAIN cv_out) =>
        cv_out.passed = RatGeq(cv_out.similarity, config_threshold)

\* C8: differences_found is true iff the diff mask of the two images has a
\* nonzero element, whatever the similarity and the verdict are.
C8_DifferencesFoundIffMaskNonzero ==
    (cv_pc = "done" /\ "error" \notin DOMAIN cv_out) =>
        LET mask == CreateDiffMask(fs[CvPath1],
                                   SameShapeAs(fs[CvPath1], fs[CvPath2]))
        IN  cv_out.differences_found = (\E i \in 1..Len(mask) : mask[i] # 0)

C8_Witness ==
    /\ cv_pc = "done"
    /\ "error" \notin DOMAIN cv_out
    /\ cv_out.passed = TRUE
    /\ cv_out.differences_found = TRUE

\* C9: a decode failure during a comparison gives the caller a result with
\* passed = false, a populated error field and no similarity value.
C9_DecodeFailureIsError ==
    (Compared /\ "error" \in DOMAIN comparison_result) =>
        /\ result.status # "passed"
        /\ "error" \in DOMAIN result
        /\ "similarity" \notin DOMAIN result

\* C10: a capture failure gives status = error with a message, and
\* status = failed is given only to a test that was compared and scored below
\* the threshold.
C10_ErrorAndFailedAreDistinct ==
    (pc = "finally" /\ mode = "visual") =>
        /\ comparison_result = NoResult =>
              /\ result.status = "error"
              /\ "error" \in DOMAIN result
              /\ current_screenshot = NoPath
        /\ result.status = "failed" =>
              /\ comparison_result # NoResult
              /\ "similarity" \in DOMAIN comparison_result
              /\ RatLt(comparison_result.similarity, VisualThreshold)

\* C11: in run_visual_tests, once the browser has started, the loop is left
\* only when every test of the batch has been run: whatever happened to a
\* test (capture failure, comparison error, failure while closing its page),
\* the tests after it still run, and the list to return holds the results of
\* the tests and no batch-level error entry.
C11_FailuresIsolatedInBatch ==
    (mode = "visual" /\ pc = "stopping" /\ browser = "open") =>
        /\ queue = <<>>
        /\ \A i \in 1..Len(results) :
              results[i].name # BatchErrorResult("").name

\* the statuses a result or a matrix entry may carry
Statuses == {"passed", "failed", "error"}

\* the comparison matrix of the cross-browser call: the dictionary under
\* 'cross_browser_comparison' once it is set, the pair loop's dictionary before
Matrix ==
    IF "cross_browser_comparison" \in DictKeys(cross_results)
    THEN DictGet(cross_results, "cross_browser_comparison")
    ELSE comparisons

\* the browsers whose capture succeeded
Succeeded ==
    {b \in DictKeys(cross_results) \ {"cross_browser_comparison"} :
        DictGet(cross_results, b).status = "success"}

\* position of a browser in the capture order
BrowserIndex(b) == CHOOSE i \in 1..Len(Browsers) : Browsers[i] = b

\* C12: every per-test result of run_visual_tests and every entry of the
\* cross-browser matrix carries an explicit status among passed, failed and
\* error, and an entry with status error carries a message.
C12_ExplicitStatusEverywhere ==
    /\ \A i \in 1..Len(results) :
          /\ results[i].status \in Statuses
          /\ results[i].status = "error" => "error" \in DOMAIN results[i]
    /\ \A i \in 1..Len(Matrix) :
          LET e == Matrix[i].value
          IN  /\ "status" \in DOMAIN e
              /\ e.status \in Statuses
              /\ e.status = "error" => "error" \in DOMAIN e

\* C13: when run_cross_browser_visual_test returns, the matrix has exactly
\* n*(n-1)/2 entries for the n browsers whose capture succeeded, its keys name
\* only such browsers, and for n <= 1 there is no matrix entry at all.
C13_MatrixCardinality ==
    pc = "returned" =>
        LET n == Cardinality(Succeeded)
        IN  /\ Len(Matrix) * 2 = n * (n - 1)
            /\ Cardinality(DictKeys(Matrix)) = Len(Matrix)
            /\ \A k \in DictKeys(Matrix) : k[1] \in Succeeded /\ k[3] \in Succeeded
            /\ n <= 1 => /\ Matrix = <<>>
                         /\ "cross_browser_comparison" \notin DictKeys(cross_results)

C13_Witness ==
    /\ pc = "returned"
    /\ Cardinality(Succeeded) = 2
    /\ Len(Matrix) = 1
    /\ "cross_browser_comparison" \in DictKeys(cross_results)

\* C14: the pair loop visits no unordered pair twice, visits browser A with
\* browser B only for A before B in capture order, writes exactly the keys
\* "A_vs_B" of the visited pairs and never a reversed key, and at return has
\* visited every unordered pair of successful browsers.
C14_EachPairOnce ==
    /\ \A i, j \in 1..Len(visited) :
          i # j => {visited[i].browser1, visited[i].browser2}
                      # {visited[j].browser1, visited[j].browser2}
    /\ \A i \in 1..Len(visited) :
          BrowserIndex(visited[i].browser1) < BrowserIndex(visited[i].browser2)
    /\ DictKeys(comparisons) =
          {ComparisonKey(visited[i].browser1, visited[i].browser2) :
              i \in 1..Len(visited)}
    /\ Len(comparisons) = Len(visited)
    /\ \A k \in DictKeys(comparisons) :
          ComparisonKey(k[3], k[1]) \notin DictKeys(comparisons)
    /\ pc = "returned" =>
          \A a, b \in Succeeded :
              BrowserIndex(a) < BrowserIndex(b) =>
                  ComparisonKey(a, b) \in DictKeys(Matrix)

C14_Witness ==
    /\ pc = "returned"
    /\ Len(visited) = 3
    /\ DictKeys(Matrix) = {ComparisonKey("chromium", "firefox"),
                           ComparisonKey("chromium", "webkit"),
                           ComparisonKey("firefox", "webkit")}

\* C15: a pair for which compare_screenshots reported an error (one of its two
\* screenshots cannot be decoded) gets a matrix entry that is an error record
\* carrying the error message, and every other visited pair has its normal
\* entry.
C15_PairFailureIsErrorRecord ==
    \A i \in 1..Len(visited) :
        LET e == DictGet(comparisons,
                         ComparisonKey(visited[i].browser1, visited[i].browser2))
        IN  /\ "error" \in DOMAIN visited[i].comparison =>
                   /\ "error" \in DOMAIN e
                   /\ "similarity" \notin DOMAIN e
            /\ "error" \notin DOMAIN visited[i].comparison =>
                   \/ "error" \in DOMAIN e
                   \/ /\ e.similarity = visited[i].comparison.similarity
                      /\ e.passed = visited[i].comparison.passed

\* C16: while the pair loop runs, and whenever a pair has been visited, each
\* of chromium, firefox and webkit has a recorded outcome, success or error.
C16_PairsAfterAllCaptures ==
    (pc = "pairs" \/ visited # <<>>) =>
        \A i \in 1..Len(Browsers) :
            /\ Browsers[i] \in DictKeys(cross_results)
            /\ DictGet(cross_results, Browsers[i]).status \in {"success", "error"}

C16_Witness ==
    /\ pc = "pairs"
    /\ visited # <<>>
    /\ \E b \in DictKeys(cross_results) : DictGet(cross_results, b).status = "error"

\* the failures reported so far by the call in progress, as messages: of the
\* unit of run_visual_tests, of create_baseline_suite, of the cross-browser call
ReportedErrors ==
    (IF result # NoResult /\ "error" \in DOMAIN result
     THEN {[unit |-> cur.url, n |-> 0, error |-> result.error]} ELSE {})
    \cup (IF baseline_results # NoResult
          THEN {[unit |-> baseline_results.failed[k].url, n |-> k,
                 error |-> baseline_results.failed[k].error] :
                   k \in 1..Len(baseline_results.failed)}
          ELSE {})
    \cup {[unit |-> cross_results[i].key, n |-> 0,
            error |-> cross_results[i].value.error] :
             i \in {k \in 1..Len(cross_results) :
                       cross_results[k].key # "cross_browser_comparison"
                       /\ cross_results[k].value.status = "error"}}

\* C17: in the single-test, baseline-suite and cross-browser capture paths,
\* the first navigation runs with the 30 s timeout and reports nothing: it
\* leads to the screenshot or, when it failed, to a second attempt, which runs
\* with the longer 60 s timeout; a navigation failure is reported only by
\* that second attempt.
C17_RetryBeforeFailure ==
    [][/\ pc = "goto1" =>
             /\ goto_timeout = FirstTimeout
             /\ pc' \in {"screenshot", "goto2"}
             /\ ReportedErrors' = ReportedErrors
       /\ pc' = "goto2" =>
             /\ pc = "goto1"
             /\ goto_timeout' = RetryTimeout
             /\ goto_timeout' > goto_timeout
       /\ pc = "goto2" => pc' \in {"screenshot", "finally"}
       /\ (\E e \in ReportedErrors' \ ReportedErrors :
              e.error = "navigation timeout") => pc = "goto2"]_vars

\* the retry of a browser of the cross-browser call has failed and is reported
C17_Witness ==
    /\ pc = "finally"
    /\ \E e \in ReportedErrors : e.error = "navigation timeout"
    /\ mode = "cross"

\* the direct call of compare_screenshots has returned and both files could
\* be decoded
CvCompared == cv_pc = "done" /\ {CvPath1, CvPath2} \subseteq DOMAIN fs

C20_SimilarityInUnitRange ==
    (cv_pc = "done" /\ "similarity" \in DOMAIN cv_out) =>
        /\ RatGeq(cv_out.similarity, Zero)
        /\ RatGeq(One, cv_out.similarity)

\* the region of a detector call that both contour passes found
DetectedRegion ==
    ui_pc = "done" /\ image_file = "image"
        /\ contours.gray # <<>> /\ contours.edges # <<>>

ElementTypes == {elements[i].type : i \in 1..Len(elements)}

\* C23: a region of 250 by 50 is reported as a button, one of 120 by 120 as
\* an image and one of 20 by 20 as neither; a button has its width in
\* 20..300 and its height in 20..80, an input has its width in 50..400, its
\* height in 15..50 and is more than twice as wide as high, and a region is
\* an image exactly when its width and its height both exceed 100
C23_DetectorBands ==
    DetectedRegion =>
        LET w == contours.gray[1].width
            h == contours.gray[1].height
        IN  /\ (w = 250 /\ h = 50) => "button" \in ElementTypes
            /\ (w = 120 /\ h = 120) => "image" \in ElementTypes
            /\ (w = 20 /\ h = 20) => ElementTypes \cap {"button", "image"} = {}
            /\ "button" \in ElementTypes => w \in 20..300 /\ h \in 20..80
            /\ "input" \in ElementTypes =>
                   w \in 50..400 /\ h \in 15..50 /\ w > 2 * h
            /\ "image" \in ElementTypes <=> (w > 100 /\ h > 100)

\* C24: for a file that is empty, missing or not an image the call returns
\* the empty list
C24_DetectionNonFatal ==
    (ui_pc = "done" /\ image_file # "image") => elements = <<>>

\* a call on an unreadable file whose picture would have held a candidate
\* has returned
C24_Witness ==
    /\ ui_pc = "done"
    /\ image_file \in {"empty", "missing", "undecodable"}
    /\ contours.gray # <<>>
    /\ IsImage(contours.gray[1].width, contours.gray[1].height)

PathSet(paths) == {paths[k] : k \in DOMAIN paths}

\* C22: two tests with distinct names get distinct current, baseline and
\* diff paths, and no file of one test is a file of the other
C22_PathDerivationInjective ==
    (path_pc = "done" /\ names[1] # names[2]) =>
        /\ \A k \in {"current", "baseline", "diff"} :
               artifact_paths[1][k] # artifact_paths[2][k]
        /\ PathSet(artifact_paths[1]) \cap PathSet(artifact_paths[2]) = {}

\* the pixels in which two images of one shape differ
PaintedPixels(a, b) == {i \in 1..Len(a.px) : a.px[i] # b.px[i]}

\* b is a with one solid colour painted over a rectangle, a non-empty block
\* of rows and columns, that covers at least 1% of the image
SolidRectanglePainted(a, b) ==
    /\ Shape(a) = Shape(b)
    /\ LET region == PaintedPixels(a, b)
           rows == {(i - 1) \div a.w : i \in region}
           cols == {(i - 1) % a.w : i \in region}
       IN  /\ region # {}
           /\ \A i, j \in region : b.px[i] = b.px[j]
           /\ \A r \in rows, c \in cols : r * a.w + c + 1 \in region
           /\ \A r \in 0..(a.h - 1) : (\E x, y \in rows : x <= r /\ r <= y) => r \in rows
           /\ \A c \in 0..(a.w - 1) : (\E x, y \in cols : x <= c /\ c <= y) => c \in cols
           /\ 100 * Cardinality(region) >= a.w * a.h

\* C21: when the second image is the first with a solid-colour rectangle of
\* at least 1% of the area painted over it, compare_screenshots reports
\* differences_found and the diff mask is nonzero somewhere in the rectangle
C21_PaintedRectangleDetected ==
    (CvCompared /\ "error" \notin DOMAIN cv_out
        /\ SolidRectanglePainted(fs[CvPath1], fs[CvPath2])) =>
        LET mask == CreateDiffMask(fs[CvPath1], fs[CvPath2])
        IN  /\ cv_out.differences_found = TRUE
            /\ \E i \in PaintedPixels(fs[CvPath1], fs[CvPath2]) : mask[i] # 0

\* the pixels of which at least one channel differs
DifferingPixels(a, b) ==
    Cardinality({i \in 1..Len(a.px) : \E ch \in 1..3 : a.px[i][ch] # b.px[i][ch]})

\* C26: without scikit-image the similarity is 1 - k/P, for k the pixels that
\* differ in at least one channel and P the pixels of the image
C26_FallbackCountsPixels ==
    (CvCompared /\ "error" \notin DOMAIN cv_out /\ ~ssim_available) =>
        LET img1 == fs[CvPath1]
            img2 == SameShapeAs(img1, fs[CvPath2])
            P == img1.w * img1.h
        IN  cv_out.similarity = Rat(P - DifferingPixels(img1, img2), P)

\* _compare_with_baseline has compared the capture with an existing baseline
\* and compare_screenshots reported no error
GenuineComparison(cr) ==
    "error" \notin DOMAIN cr /\ "first_run" \notin DOMAIN cr

\* the file at path p is the same before and after the step
Untouched(p) ==
    /\ p \in DOMAIN fs' <=> p \in DOMAIN fs
    /\ p \in DOMAIN fs => fs'[p] = fs[p]

\* the file at path p after the step is a three-panel picture whose first
\* panel is the baseline
CompositeWritten(p, baseline_path) ==
    /\ p \in DOMAIN fs'
    /\ fs'[p].w = 3 * fs[baseline_path].w
    /\ fs'[p].h = fs[baseline_path].h
    /\ SubSeq(fs'[p].px, 1, fs[baseline_path].w) = Row(fs[baseline_path], 1)

OverCutoff(a, b, i) == ToGray(AbsDiff(a, b))[i] > 30

\* the second image with the pixels over the cutoff drawn in red
Marked(a, b) ==
    MkImage(a.w, a.h,
            [i \in 1..(a.w * a.h) |-> IF OverCutoff(a, b, i) THEN Red ELSE b.px[i]])

\* C27: for the pair compared last, the diff mask has the width and height
\* of the images, each element is 255 where the luminance of the absolute
\* difference exceeds 30 and 0 elsewhere, differences_found and the diff
\* image follow that mask, and the third panel of the composite marks the
\* same pixels
C27_MaskCutoffShared ==
    (visited # <<>> /\ "error" \notin DOMAIN visited[Len(visited)].comparison) =>
        LET v == visited[Len(visited)]
            a == fs[DictGet(cross_results, v.browser1).screenshot]
            b == SameShapeAs(a, fs[DictGet(cross_results, v.browser2).screenshot])
            mask == CreateDiffMask(a, b)
            e == DictGet(comparisons, ComparisonKey(v.browser1, v.browser2))
        IN  /\ Len(mask) = a.w * a.h
            /\ \A i \in 1..Len(mask) :
                   mask[i] = IF OverCutoff(a, b, i) THEN 255 ELSE 0
            /\ v.comparison.differences_found =
                   (\E i \in 1..Len(mask) : OverCutoff(a, b, i))
            /\ fs[v.comparison.diff_image] = Marked(a, b)
            /\ "diff_image" \in DOMAIN e =>
                   /\ fs[e.diff_image].w = 3 * a.w
                   /\ fs[e.diff_image].h = a.h
                   /\ \A r \in 1..a.h :
                          SubSeq(Row(fs[e.diff_image], r), 2 * a.w + 1, 3 * a.w)
                              = Row(Marked(a, b), r)

\* a composite was written for a pair of captures of which one pixel differs
\* by more than the cutoff and another by less
C27_Witness ==
    /\ visited # <<>>
    /\ "error" \notin DOMAIN visited[Len(visited)].comparison
    /\ LET v == visited[Len(visited)]
           a == fs[DictGet(cross_results, v.browser1).screenshot]
           b == fs[DictGet(cross_results, v.browser2).screenshot]
           e == DictGet(comparisons, ComparisonKey(v.browser1, v.browser2))
       IN  /\ "diff_image" \in DOMAIN e
           /\ e.diff_image \in DOMAIN fs
           /\ \E i \in 1..Len(a.px) : a.px[i] # b.px[i] /\ ~OverCutoff(a, b, i)
           /\ \E i \in 1..Len(a.px) : OverCutoff(a, b, i)

\* a unit of a batch is between its start and its result
InUnit == pc \in {"new_page", "goto1", "goto2", "screenshot", "compare", "finally"}

\* C28: while a test or url of a batch is processed the browser is running,
\* and whenever run_visual_tests or create_baseline_suite has returned, the
\* browser handle and the playwright handle are both None
C28_BrowserStoppedOnReturn ==
    /\ (mode \in {"visual", "baseline"} /\ InUnit) =>
           browser # None /\ playwright # None
    /\ pc = "idle" => browser = None /\ playwright = None

\* run_visual_tests has returned after an exception left its loop
C28_Witness ==
    /\ pc = "idle"
    /\ results # <<>>
    /\ results[Len(results)].name = BatchErrorResult("").name
    /\ Len(results) > 1
    /\ browser = None
    /\ playwright = None

\* C29: no page is open between two units, when a unit is about to open its
\* page, or after a call has returned: the page of a test, of a baseline
\* iteration and of a browser iteration is closed before the unit hands over
\* its result, so that a batch never has two pages open
C29_PageClosedBeforeResult ==
    pc \in {"idle", "loop", "launch", "new_page", "pairs", "returned"} =>
        page = None

\* a test whose page was open when its capture failed has handed over its
\* error result, and the page is closed
C29_Witness ==
    /\ pc = "loop"
    /\ mode = "visual"
    /\ page = None
    /\ results # <<>>
    /\ results[Len(results)].status = "error"
    /\ results[Len(results)].error = "screenshot failed"

\* C30: the baseline analysis is set by the first analysis; afterwards it
\* changes only in an iteration that detected changes, whose suite was
\* generated and executed without an error and in which no executed test
\* failed, and it then becomes the current analysis
C30_BaselineUpdateGuarded ==
    [][baseline_analysis' # baseline_analysis =>
        IF baseline_analysis = NoResult
        THEN baseline_analysis' = current_analysis'
        ELSE /\ baseline_analysis' = current_analysis
             /\ changes # <<>>
             /\ "error" \notin DOMAIN test_suite
             /\ "error" \notin DOMAIN exec_results'
             /\ "statuses" \in DOMAIN exec_results'
             /\ \A i \in 1..Len(exec_results'.statuses) :
                    exec_results'.statuses[i] = "passed"]_vars

====
